---- MODULE Spec2Model ----
(***************************************************************************)
(* Poco::JSON::Object (JSON/include/Poco/JSON/Object.h): the property bag, *)
(* its two key orders, doStringify and the VarHolderImpl<Object::Ptr>      *)
(* conversions.                                                            *)
(*                                                                         *)
(* Memory model.  _values is a std::map: every entry lives in a node of    *)
(* its own, at an address that stays the same until the entry is erased.   *)
(* _keys is a std::deque<Dynamic::Var*>: addresses of the Vars inside the  *)
(* map nodes.  An address in _keys whose node was erased is dangling;      *)
(* reading through it is undefined behaviour, modelled as a choice made    *)
(* anew by every call: the destroyed key string reads as some key or as    *)
(* garbage, the destroyed Var as an empty Var or as garbage.  A later      *)
(* insertion may be given a freed address again, and the element of _keys  *)
(* then points to the new entry.                                           *)
(*                                                                         *)
(* Object.cpp is not part of the sources at hand: the constructor, get,    *)
(* set, getNames, stringify and getKey(KeyPtrList) follow the written      *)
(* specification of the container.                                         *)
(***************************************************************************)
EXTENDS Integers, Sequences, FiniteSets, TLC

VARIABLES
    _values,            \* ValueMap: key -> [addr, val], DOMAIN = keys present
    _keys,              \* KeyPtrList: sequence of node addresses
    _preserveInsOrder,  \* bool, fixed at construction
    firstSet,           \* history: present keys in the order of their insertion
    last                \* history: the most recent call, its arguments and result

vars == <<_values, _keys, _preserveInsOrder, firstSet, last>>

----------------------------------------------------------------------------
(* Bounds *)

NumAddrs == 2
MaxOrder == 2
MaxIndent == 1
MaxStep == 2

(* Program constants *)

\* the largest int; unsigned int holds 0 .. 2 * IntMax + 1
IntMax == 2147483647

----------------------------------------------------------------------------
(* Domains *)

Keys == {"a", "b"}
KeyRank == [a |-> 1, b |-> 2]
Addrs == 1..NumAddrs

EmptyVar == "empty"
Values == {EmptyVar, "i1", "s7", "sx", "arr", "obj"}
Scalars == {EmptyVar, "i1", "s7", "sx"}
Garbage == "garbage"
DanglingKeys == Keys \cup {Garbage}
DanglingVals == {EmptyVar, Garbage}
Defs == {0, 42}
\* the values set where only their text matters, and where only their number does
PrintedValues == {"i1", "sx"}
HeldValues == {"i1"}
Indents == 0..MaxIndent
Steps == (-1)..MaxStep

----------------------------------------------------------------------------
(* Dynamic::Var, as far as Object.h uses it *)

\* Var::type(): the typeid of the held value
type(v) == CASE v = "arr" -> "Array::Ptr"
             [] v = "obj" -> "Object::Ptr"
             [] v = "i1"  -> "int"
             [] v \in {"s7", "sx"} -> "std::string"
             [] OTHER -> "void"

\* Var::isEmpty()
isEmpty(v) == v = EmptyVar

\* Var::convert<int>(): the value, or the exception thrown
convertInt(v) == CASE v = "i1"  -> [ok |-> TRUE, val |-> 1]
                   [] v = "s7"  -> [ok |-> TRUE, val |-> 7]
                   [] v = "sx"  -> [ok |-> FALSE, exc |-> "SyntaxException"]
                   [] v = "arr" -> [ok |-> FALSE, exc |-> "BadCastException"]
                   [] v = "obj" -> [ok |-> FALSE, exc |-> "BadCastException"]
                   [] OTHER     -> [ok |-> FALSE, exc |-> "InvalidAccessException"]

\* Stringifier::stringify of one value: the text written
StringifierText(v) == CASE v = EmptyVar -> <<"null">>
                        [] v = "i1"  -> <<"1">>
                        [] v = "s7"  -> <<"\"", "7", "\"">>
                        [] v = "sx"  -> <<"\"", "x", "\"">>
                        [] v = "arr" -> <<"<array>">>
                        [] v = "obj" -> <<"<object>">>
                        [] OTHER     -> <<Garbage>>

----------------------------------------------------------------------------
(* Object: queries *)

has_negated(key) == key \notin DOMAIN _values

\* Object::has
has(key) == key \in DOMAIN _values

\* Object::isArray
isArray(key) == key \in DOMAIN _values /\ type(_values[key].val) = "Array::Ptr"

isNull_presentOnly(key) == key \in DOMAIN _values /\ isEmpty(_values[key].val)

\* Object::isNull
isNull(key) == key \notin DOMAIN _values \/ isEmpty(_values[key].val)

\* Object::isObject
isObject(key) == key \in DOMAIN _values /\ type(_values[key].val) = "Object::Ptr"

\* Object::size
size == Cardinality(DOMAIN _values)

\* Object::get
get(key) == IF key \in DOMAIN _values THEN _values[key].val ELSE EmptyVar

----------------------------------------------------------------------------
(* Iteration *)

RECURSIVE SortedKeys_descending(_)
SortedKeys_descending(S) ==
    IF S = {} THEN <<>>
    ELSE LET m == CHOOSE k \in S : \A j \in S : KeyRank[k] >= KeyRank[j]
         IN  <<m>> \o SortedKeys_descending(S \ {m})

RECURSIVE SortedKeys(_)
\* std::map iteration order: ascending keys
SortedKeys(S) ==
    IF S = {} THEN <<>>
    ELSE LET m == CHOOSE k \in S : \A j \in S : KeyRank[k] <= KeyRank[j]
         IN  <<m>> \o SortedKeys(S \ {m})

\* the ValueMap container as doStringify walks it: getKey(it), getValue(it)
MapEntries == LET ks == SortedKeys(DOMAIN _values)
              IN  [i \in 1..Len(ks) |-> [key |-> ks[i], val |-> _values[ks[i]].val]]

LiveAddrs == {_values[k].addr : k \in DOMAIN _values}
FreeAddrs == Addrs \ LiveAddrs
KeyAt(a) == CHOOSE k \in DOMAIN _values : _values[k].addr = a

\* what one call can read through the dangling elements of _keys
DanglingEntries == {[key |-> k, val |-> v] : k \in DanglingKeys, v \in DanglingVals}

\* Object::getKey(KeyPtrList::const_iterator&), g being read where a dangles
getKey(a, g) == IF a \in LiveAddrs THEN KeyAt(a) ELSE g.key

\* Object::getValue(KeyPtrList::const_iterator&): **it, g being read where a dangles
getValue(a, g) == IF a \in LiveAddrs THEN _values[KeyAt(a)].val ELSE g.val

\* the KeyPtrList container as doStringify walks it
KeyListEntries(g) ==
    [i \in 1..Len(_keys) |-> [key |-> getKey(_keys[i], g), val |-> getValue(_keys[i], g)]]

\* Object::getNames: the names appended, one sequence per possible outcome
getNames ==
    IF _preserveInsOrder
    THEN {[i \in 1..Len(_keys) |-> getKey(_keys[i], g)] : g \in DanglingEntries}
    ELSE {SortedKeys(DOMAIN _values)}

----------------------------------------------------------------------------
(* Snapshot of the observable state, kept in the history variable *)

GetAll == [k \in Keys |-> get(k)]

----------------------------------------------------------------------------
(* Object: construction and mutation *)

\* Object::Object(bool preserveInsertionOrder)
Init ==
    /\ _preserveInsOrder \in BOOLEAN
    /\ _values = <<>>
    /\ _keys = <<>>
    /\ firstSet = <<>>
    /\ last = [op |-> "new"]

RemoveFrom(s, k) == SelectSeq(s, LAMBDA x : x # k)

\* Object::set
set(key, value) ==
    LET had == key \in DOMAIN _values IN
    /\ had \/ ~_preserveInsOrder \/ Len(_keys) < MaxOrder
    /\ \E a \in (IF had THEN {_values[key].addr} ELSE FreeAddrs) :
        /\ _values' = [k \in DOMAIN _values \cup {key} |->
                          IF k = key THEN [addr |-> a, val |-> value] ELSE _values[k]]
        /\ _keys' = IF _preserveInsOrder /\ ~had THEN Append(_keys, a) ELSE _keys
    /\ firstSet' = IF had THEN firstSet ELSE Append(firstSet, key)
    /\ last' = [op |-> "set", key |-> key, val |-> value, had |-> had,
                size0 |-> size, get0 |-> GetAll, names0 |-> getNames]
    /\ UNCHANGED _preserveInsOrder

\* Object::remove
remove(key) ==
    LET had == key \in DOMAIN _values
        undo == last.op = "set" /\ last.key = key /\ ~last.had
    IN
    /\ _values' = [k \in DOMAIN _values \ {key} |-> _values[k]]
    /\ firstSet' = RemoveFrom(firstSet, key)
    /\ last' = [op |-> "remove", key |-> key, had |-> had, keys0 |-> _keys,
                size0 |-> size, get0 |-> GetAll, names0 |-> getNames,
                undoesSet |-> undo,
                sizeBeforeSet |-> IF undo THEN last.size0 ELSE 0,
                namesBeforeSet |-> IF undo THEN last.names0 ELSE {}]
    /\ UNCHANGED <<_keys, _preserveInsOrder>>

----------------------------------------------------------------------------
(* Object: const operations, each recorded in `last` *)

\* one call each of has, isNull, isArray, isObject and get on the same key
query(key) ==
    /\ last' = [op |-> "query", key |-> key, has |-> has(key), isNull |-> isNull(key),
                isArray |-> isArray(key), isObject |-> isObject(key), get |-> get(key)]
    /\ UNCHANGED <<_values, _keys, _preserveInsOrder, firstSet>>

\* a call of getNames on an empty vector
getNamesCall ==
    /\ \E n \in getNames :
        last' = [op |-> "getNames", names |-> n]
    /\ UNCHANGED <<_values, _keys, _preserveInsOrder, firstSet>>

optValue_catchBadCast(key, def) ==
    IF key \in DOMAIN _values /\ ~isEmpty(_values[key].val)
    THEN LET r == convertInt(_values[key].val)
         IN  IF r.ok THEN [raised |-> FALSE, value |-> r.val]
             ELSE IF r.exc = "BadCastException" THEN [raised |-> FALSE, value |-> def]
             ELSE [raised |-> TRUE, value |-> def]
    ELSE [raised |-> FALSE, value |-> def]

\* Object::optValue<int>: what the call returns, or that it raised
optValue(key, def) ==
    IF key \in DOMAIN _values /\ ~isEmpty(_values[key].val)
    THEN LET r == convertInt(_values[key].val)
         IN  IF r.ok THEN [raised |-> FALSE, value |-> r.val]
             ELSE [raised |-> FALSE, value |-> def]
    ELSE [raised |-> FALSE, value |-> def]

optValueCall(key, def) ==
    /\ last' = [op |-> "optValue", key |-> key, def |-> def, ret |-> optValue(key, def),
                values0 |-> _values, keys0 |-> _keys]
    /\ UNCHANGED <<_values, _keys, _preserveInsOrder, firstSet>>

----------------------------------------------------------------------------
(* Stringification *)

\* u >= i for an unsigned u below 2^31 and an int i, which the usual arithmetic
\* conversions turn into the unsigned i + 2^32 when it is negative:
\* u >= i + 2 * IntMax + 2, written so that no term leaves the int range
unsignedGE(u, i) ==
    IF i >= 0 THEN u >= i ELSE (u - IntMax) - 1 >= (i + IntMax) + 1

Spaces(n) == [i \in 1..n |-> " "]

closingIndent_clamped(indent, step) ==
    IF unsignedGE(indent, step) THEN indent - step ELSE 0

\* Object::doStringify, lines 177-180: the indent of the closing brace
\* (indent -= step runs only with 0 <= step <= indent: it cannot wrap)
closingIndent(indent, step) ==
    IF unsignedGE(indent, step) THEN indent - step ELSE indent

\* Object::doStringify, lines 172-174: what follows an entry's value
entryEnd(isLast, indent, step) ==
    (IF isLast THEN <<>> ELSE <<",">>) \o (IF step > 0 THEN <<"\n">> ELSE <<>>)

\* Object::doStringify, lines 165-174: one turn of the loop
entryText(e, isLast, indent, step) ==
    Spaces(indent) \o <<"\"", e.key, "\"">>
    \o <<(IF indent > 0 THEN " : " ELSE ":")>>
    \o StringifierText(e.val)
    \o entryEnd(isLast, indent, step)

RECURSIVE entriesText(_, _, _)
entriesText(c, indent, step) ==
    IF c = <<>> THEN <<>>
    ELSE entryText(Head(c), Len(c) = 1, indent, step) \o entriesText(Tail(c), indent, step)

\* Object::doStringify
doStringify(container, indent, step) ==
    <<"{">>
    \o (IF indent > 0 THEN <<"\n">> ELSE <<>>)
    \o entriesText(container, indent, step)
    \o Spaces(closingIndent(indent, step))
    \o <<"}">>

\* Object::stringify: doStringify over _values or over _keys, by the mode, with
\* indent and step as given
stringify(indent, step) ==
    /\ \E c \in (IF _preserveInsOrder
                 THEN {KeyListEntries(g) : g \in DanglingEntries}
                 ELSE {MapEntries}) :
        last' = [op |-> "stringify", indent |-> indent, step |-> step,
                 out |-> doStringify(c, indent, step),
                 values0 |-> _values, keys0 |-> _keys]
    /\ UNCHANGED <<_values, _keys, _preserveInsOrder, firstSet>>

----------------------------------------------------------------------------
(* VarHolderImpl<JSON::Object::Ptr> *)

IntegerKinds == {"Int8", "Int16", "Int32", "Int64", "UInt8", "UInt16", "UInt32", "UInt64"}
FloatKinds == {"float", "double"}
DateKinds == {"DateTime", "LocalDateTime", "Timestamp"}
Targets == IntegerKinds \cup FloatKinds \cup DateKinds \cup {"bool", "char"}

convertBool_nonNull(valIsNull) == ~valIsNull

\* VarHolderImpl::convert(bool&)
convertBool(valIsNull) == ~valIsNull /\ size > 0

\* VarHolderImpl::convert, every overload but the one to std::string
convert(target, valIsNull) ==
    CASE target = "bool" -> [ok |-> TRUE, val |-> convertBool(valIsNull)]
      [] target \in DateKinds -> [ok |-> FALSE, exc |-> "NotImplementedException"]
      [] OTHER -> [ok |-> FALSE, exc |-> "BadCastException"]

\* a holder is made of a handle (null, or this Object) and asked to convert
convertCall(target, valIsNull) ==
    /\ last' = [op |-> "convert", target |-> target, valIsNull |-> valIsNull,
                ret |-> convert(target, valIsNull),
                values0 |-> _values, keys0 |-> _keys]
    /\ UNCHANGED <<_values, _keys, _preserveInsOrder, firstSet>>

----------------------------------------------------------------------------

\* every operation
Next ==
    \/ \E k \in Keys, v \in Values : set(k, v)
    \/ \E k \in Keys : remove(k)
    \/ \E k \in Keys : query(k)
    \/ getNamesCall
    \/ \E k \in Keys, d \in Defs : optValueCall(k, d)
    \/ \E i \in Indents, s \in Steps : stringify(i, s)
    \/ \E t \in Targets, n \in BOOLEAN : convertCall(t, n)

SpecAll == Init /\ [][Next]_vars

\* the container and its queries
NextObject ==
    \/ \E k \in Keys, v \in Values : set(k, v)
    \/ \E k \in Keys : remove(k)
    \/ \E k \in Keys : query(k)
    \/ getNamesCall
    \/ \E k \in Keys, d \in Defs : optValueCall(k, d)

Spec == Init /\ [][NextObject]_vars

\* the container and its stringification
NextStringify ==
    \/ \E k \in Keys, v \in PrintedValues : set(k, v)
    \/ \E k \in Keys : remove(k)
    \/ \E i \in Indents, s \in Steps : stringify(i, s)

SpecStringify == Init /\ [][NextStringify]_vars

\* the container inside a dynamic-value holder
NextConvert ==
    \/ \E k \in Keys, v \in HeldValues : set(k, v)
    \/ \E k \in Keys : remove(k)
    \/ \E t \in Targets, n \in BOOLEAN : convertCall(t, n)

SpecConvert == Init /\ [][NextConvert]_vars

\* an Object that is only ever set
NextSetOnly ==
    \/ \E k \in Keys, v \in Values : set(k, v)
    \/ getNamesCall

SpecSetOnly == Init /\ [][NextSetOnly]_vars

----------------------------------------------------------------------------
(* Properties *)

Range(s) == {s[i] : i \in 1..Len(s)}
Max(a, b) == IF a >= b THEN a ELSE b
Count(s, x) == Cardinality({i \in 1..Len(s) : s[i] = x})

\* the keys in the order the object is meant to present them
KeyIndexOrder == IF _preserveInsOrder THEN firstSet ELSE SortedKeys(DOMAIN _values)

\* C1: in insertion-order mode every element of _keys points to an entry that is
\* present in _values, no entry is pointed to twice, there are size() elements,
\* and a remove of a present key has taken one element out of _keys.
C1_OrderSequenceLive ==
    _preserveInsOrder =>
        /\ \A i \in 1..Len(_keys) : _keys[i] \in LiveAddrs
        /\ \A i, j \in 1..Len(_keys) : i # j => _keys[i] # _keys[j]
        /\ Len(_keys) = size
        /\ (last.op = "remove" /\ last.had) => Len(_keys) = Len(last.keys0) - 1

\* C2: remove(k) right after a set(k, v) that inserted k gives back the state
\* before the set (has(k) false, size one less and as before the set, getNames
\* the same sequence as before the set), and remove of an absent key changes
\* neither size, nor getNames, nor any get.
C2_SetThenRemoveRestores ==
    /\ (last.op = "remove" /\ last.undoesSet) =>
        /\ ~has(last.key)
        /\ size = last.size0 - 1
        /\ size = last.sizeBeforeSet
        /\ \A n \in getNames, m \in last.namesBeforeSet : n = m
    /\ (last.op = "remove" /\ ~last.had) =>
        /\ size = last.size0
        /\ \A n \in getNames, m \in last.names0 : n = m
        /\ GetAll = last.get0

\* C3: after set(k, v), has(k) and get(k) = v; size grew by one if k was absent
\* and is unchanged if k was present; size is the number of keys present; the
\* values of the other keys are as before.
C3_SetInsertsOrOverwrites ==
    /\ size = Cardinality({k \in Keys : has(k)})
    /\ last.op = "set" =>
        /\ has(last.key)
        /\ get(last.key) = last.val
        /\ size = IF last.had THEN last.size0 ELSE last.size0 + 1
        /\ \A k \in Keys \ {last.key} : get(k) = last.get0[k]

\* an overwrite of a present key with another value, with both keys present
C3_Witness ==
    /\ last.op = "set" /\ last.had /\ last.get0[last.key] # last.val
    /\ size = 2

\* C4: on an Object that was only ever set, getNames gives the keys in the
\* order of their first insertion (insertion-order mode) or in strictly
\* ascending order (sorted mode), each present key once.
C4_GetNamesOrder ==
    last.op = "getNames" =>
        /\ Range(last.names) = DOMAIN _values
        /\ Len(last.names) = size
        /\ _preserveInsOrder => last.names = firstSet
        /\ ~_preserveInsOrder =>
            \A i, j \in 1..Len(last.names) :
                i < j => KeyRank[last.names[i]] < KeyRank[last.names[j]]

\* both modes asked after b was set before a
C4_Witness ==
    /\ last.op = "getNames"
    /\ firstSet = <<"b", "a">>
    /\ _preserveInsOrder => last.names = <<"b", "a">>
    /\ ~_preserveInsOrder => last.names = <<"a", "b">>

\* C5: for an absent key has is false, isNull true, isArray and isObject false
\* and get empty; isNull is true exactly when the key is absent or its value
\* is empty.
C5_AbsentKeyUniform ==
    last.op = "query" =>
        /\ last.key \notin DOMAIN _values =>
            /\ ~last.has
            /\ last.isNull
            /\ ~last.isArray
            /\ ~last.isObject
            /\ last.get = EmptyVar
        /\ last.isNull <=>
            (last.key \notin DOMAIN _values \/ _values[last.key].val = EmptyVar)

\* an absent key is asked about, in an Object that holds another key
C5_Witness ==
    /\ last.op = "query"
    /\ last.key \notin DOMAIN _values
    /\ _values # <<>>
    /\ last.isNull

\* the int a stored value converts to, if any
Converted(v, def) == CASE v = "i1" -> 1 [] v = "s7" -> 7 [] OTHER -> def

\* C6: optValue<int>(key, def) does not raise and leaves the Object as it was;
\* it returns def for an absent key, an empty value or a value that does not
\* convert, and the converted value otherwise.
C6_OptValueDefaults ==
    last.op = "optValue" =>
        /\ ~last.ret.raised
        /\ last.ret.value =
            IF last.key \in DOMAIN _values
            THEN Converted(_values[last.key].val, last.def)
            ELSE last.def
        /\ _values = last.values0
        /\ _keys = last.keys0

\* a string that is no number is stored, and the default comes back
C6_Witness ==
    /\ last.op = "optValue"
    /\ last.key \in DOMAIN _values
    /\ _values[last.key].val = "sx"
    /\ last.def = 42
    /\ last.ret = [raised |-> FALSE, value |-> 42]

AllScalar == \A k \in DOMAIN _values : _values[k].val \in Scalars

RECURSIVE CompactEntries(_)
CompactEntries(ks) ==
    IF ks = <<>> THEN <<>>
    ELSE <<"\"", Head(ks), "\"", ":">> \o StringifierText(_values[Head(ks)].val)
         \o (IF Len(ks) > 1 THEN <<",">> ELSE <<>>)
         \o CompactEntries(Tail(ks))

\* C7: with indent 0 and scalar properties the text is '{', the entries as
\* "key":value with ',' between them, '}', and holds no newline, whatever step.
C7_IndentZeroSingleLine ==
    (last.op = "stringify" /\ last.indent = 0 /\ AllScalar) =>
        /\ last.out = <<"{">> \o CompactEntries(KeyIndexOrder) \o <<"}">>
        /\ "\n" \notin Range(last.out)

\* the number of spaces right before the last character of the text
RECURSIVE TrailingSpaces(_)
TrailingSpaces(t) ==
    IF Len(t) < 2 \/ t[Len(t) - 1] # " " THEN 0
    ELSE 1 + TrailingSpaces(SubSeq(t, 1, Len(t) - 2) \o <<t[Len(t)]>>)

\* C8 as written: the closing brace is preceded by max(0, indent - step) spaces.
C8_ClosingIndentClamped ==
    last.op = "stringify" =>
        /\ last.out[Len(last.out)] = "}"
        /\ TrailingSpaces(last.out) = Max(0, last.indent - last.step)

\* C8, amended: the closing brace is preceded by indent - step spaces when
\* 0 <= step <= indent, and by indent spaces otherwise (a negative step, or a
\* step greater than indent, leaves the indent as it is).
C8_ClosingIndent ==
    last.op = "stringify" =>
        /\ last.out[Len(last.out)] = "}"
        /\ TrailingSpaces(last.out) =
            IF 0 <= last.step /\ last.step <= last.indent
            THEN last.indent - last.step
            ELSE last.indent

\* a step greater than a positive indent: the brace stays at indent
C8_Witness ==
    /\ last.op = "stringify"
    /\ last.indent > 0
    /\ last.step > last.indent
    /\ TrailingSpaces(last.out) = last.indent

RECURSIVE IndentedEntries(_, _)
IndentedEntries(ks, w) ==
    IF ks = <<>> THEN <<>>
    ELSE Spaces(w) \o <<"\"", Head(ks), "\"", " : ">>
         \o StringifierText(_values[Head(ks)].val)
         \o (IF Len(ks) > 1 THEN <<",">> ELSE <<>>)
         \o <<"\n">>
         \o IndentedEntries(Tail(ks), w)

\* C9: with indent = step = w > 0 and n >= 1 scalar properties the text is
\* '{', newline, each entry in key-index order as w spaces, "key", ' : ',
\* value, ',' unless it is the last, newline, then '}' at 0 spaces: n - 1
\* commas; the Object is unchanged.
C9_IndentedText ==
    (last.op = "stringify" /\ last.indent = last.step /\ last.indent > 0
        /\ size >= 1 /\ AllScalar) =>
        /\ last.out = <<"{", "\n">> \o IndentedEntries(KeyIndexOrder, last.indent)
                      \o <<"}">>
        /\ Count(last.out, ",") = size - 1
        /\ _values = last.values0
        /\ _keys = last.keys0

\* C10: a holder of an Object handle converts to bool as "non-null and
\* size() > 0", refuses every integer, floating and character kind with
\* bad-cast and every date kind with not-implemented, and leaves the Object
\* as it was.
C10_ConversionPolicy ==
    last.op = "convert" =>
        /\ last.target = "bool" =>
            /\ last.ret.ok
            /\ last.ret.val = (~last.valIsNull /\ size > 0)
        /\ last.target \in IntegerKinds \cup FloatKinds \cup {"char"} =>
            /\ ~last.ret.ok
            /\ last.ret.exc = "BadCastException"
        /\ last.target \in DateKinds =>
            /\ ~last.ret.ok
            /\ last.ret.exc = "NotImplementedException"
        /\ _values = last.values0
        /\ _keys = last.keys0

\* an insertion-order Object emptied by remove converts to false
C10_Witness ==
    /\ last.op = "convert"
    /\ last.target = "bool"
    /\ ~last.valIsNull
    /\ size = 0
    /\ _keys # <<>>
    /\ last.ret = [ok |-> TRUE, val |-> FALSE]

====
